---- MODULE Spec2Model ----
(***************************************************************************)
(* Model of the document generation subsystem of parcial-sysacad:          *)
(*   - DocumentGeneratorFactory (registry of generator classes),           *)
(*   - PDF / ODT / DOCX generators (template lookup, scratch files),       *)
(*   - AlumnoService.generar_certificado_alumno_regular and its context.   *)
(* Python strings are modelled as sequences of one-character strings so    *)
(* that str.lower() and str.join() are computed, not assumed.              *)
(***************************************************************************)
EXTENDS Naturals, Sequences, FiniteSets

VARIABLES
    pc,                     \* next module-level statement of the factory module
    WEASYPRINT_AVAILABLE,   \* flag set by the guarded import
    _generators,            \* DocumentGeneratorFactory._generators (insertion-ordered dict)
    ret,                    \* outcome of the last call made on the factory
    pre,                    \* _generators as it was when that call started
    calls,                  \* per call slot: the frame of a generar / certificate request
    files,                  \* the scratch directory: path -> content (Absent when no file)
    alumnos,                \* the alumnos table: id -> row (NoRow when the id is not stored)
    especialidades,         \* the especialidades table: id -> row
    now,                    \* the system clock: the index of today in Dates
    out                     \* outcome of the last call made on EspecialidadService

vars == <<pc, WEASYPRINT_AVAILABLE, _generators, ret, pre, calls, files, alumnos,
          especialidades, now, out>>

(***************************************************************************)
(* Bounds of the model.                                                    *)
(***************************************************************************)
\* number of format identifiers beyond pdf / odt / docx that clients use
NumExtra == 1
\* number of call slots (threads) that may run a generar call at once
MaxCalls == 1
\* number of ids of the alumnos table
MaxAlumnos == 2

(***************************************************************************)
(* Strings.                                                                *)
(***************************************************************************)
LowerCase == <<"a","b","c","d","e","f","g","h","i","j","k","l","m",
               "n","o","p","q","r","s","t","u","v","w","x","y","z">>
UpperCase == <<"A","B","C","D","E","F","G","H","I","J","K","L","M",
               "N","O","P","Q","R","S","T","U","V","W","X","Y","Z">>

Range(s) == {s[i] : i \in DOMAIN s}

\* the lower-case form of every upper-case letter, and the reverse
ToLower == [c \in Range(UpperCase) |->
               LowerCase[CHOOSE i \in DOMAIN UpperCase : UpperCase[i] = c]]
ToUpper == [c \in Range(LowerCase) |->
               UpperCase[CHOOSE i \in DOMAIN LowerCase : LowerCase[i] = c]]

LowerChar(c) == IF c \in DOMAIN ToLower THEN ToLower[c] ELSE c

UpperChar(c) == IF c \in DOMAIN ToUpper THEN ToUpper[c] ELSE c

\* str.lower()
lower(s) == [i \in DOMAIN s |-> LowerChar(s[i])]

\* str.upper() and str.capitalize(), used to build the clients' inputs
upper(s) == [i \in DOMAIN s |-> UpperChar(s[i])]
capitalize(s) == [i \in DOMAIN s |-> IF i = 1 THEN UpperChar(s[i]) ELSE LowerChar(s[i])]

RECURSIVE join(_, _)
\* sep.join(parts)
join(sep, parts) ==
    IF Len(parts) = 0 THEN <<>>
    ELSE IF Len(parts) = 1 THEN parts[1]
    ELSE parts[1] \o sep \o join(sep, Tail(parts))

(***************************************************************************)
(* Generator classes.                                                      *)
(***************************************************************************)
None == "None"

PDFDocumentGenerator == "PDFDocumentGenerator"
ODTDocumentGenerator == "ODTDocumentGenerator"
DOCXDocumentGenerator == "DOCXDocumentGenerator"
\* a generator class written by a client of the factory (extension 'txt')
StubGenerator == "StubGenerator"

BuiltinClasses == {PDFDocumentGenerator, ODTDocumentGenerator, DOCXDocumentGenerator}
GeneratorClasses == BuiltinClasses \cup {StubGenerator}
\* the classes the clients pass to register at run time
RegisteredByClients == {PDFDocumentGenerator, StubGenerator}

ExtensionDocxAsDoc(generator_class) ==
    CASE generator_class = PDFDocumentGenerator -> <<"p","d","f">>
      [] generator_class = ODTDocumentGenerator -> <<"o","d","t">>
      [] generator_class = DOCXDocumentGenerator -> <<"d","o","c">>
      [] OTHER -> <<"t","x","t">>

\* the extension property of each generator class
Extension(generator_class) ==
    CASE generator_class = PDFDocumentGenerator -> <<"p","d","f">>
      [] generator_class = ODTDocumentGenerator -> <<"o","d","t">>
      [] generator_class = DOCXDocumentGenerator -> <<"d","o","c","x">>
      [] OTHER -> <<"t","x","t">>

(***************************************************************************)
(* DocumentGeneratorFactory.  The dict is a sequence of <<key, value>>     *)
(* pairs in insertion order; assigning an existing key keeps its place.    *)
(***************************************************************************)
Keys(gens) == [i \in DOMAIN gens |-> gens[i][1]]

HasKey(gens, k) == \E i \in DOMAIN gens : gens[i][1] = k

\* dict.get(k): the value bound to k, None when k is no key
Get(gens, k) ==
    IF HasKey(gens, k)
    THEN gens[CHOOSE i \in DOMAIN gens : gens[i][1] = k][2]
    ELSE None

\* d[k] = v
SetItem(gens, k, v) ==
    IF HasKey(gens, k)
    THEN [i \in DOMAIN gens |-> IF gens[i][1] = k THEN <<k, v>> ELSE gens[i]]
    ELSE Append(gens, <<k, v>>)

registerDroppingOthers(gens, format_type, generator_class) ==
    <<<<lower(format_type), generator_class>>>>

registerKeepingCase(gens, format_type, generator_class) ==
    SetItem(gens, format_type, generator_class)

\* DocumentGeneratorFactory.register: the registry after the call
register(gens, format_type, generator_class) ==
    SetItem(gens, lower(format_type), generator_class)

\* DocumentGeneratorFactory.get_available_formats: list(cls._generators.keys())
get_available_formats(gens) == Keys(gens)

\* what no call has returned.  oid is the identity of the instance returned
\* (0 for none); shared tells whether the list returned is the registry's own
\* object rather than a copy
NoOutcome ==
    [op |-> "none", format_type |-> <<>>, generator_class |-> None,
     kind |-> "none", instance |-> None, available |-> <<>>, formats |-> <<>>,
     oid |-> 0, shared |-> FALSE]

createExactKey(gens, format_type) ==
    LET generator_class == Get(gens, format_type) IN
    IF generator_class = None
    THEN [NoOutcome EXCEPT !.op = "create", !.format_type = format_type,
                           !.kind = "ValueError",
                           !.available = join(<<",", " ">>, Keys(gens))]
    ELSE [NoOutcome EXCEPT !.op = "create", !.format_type = format_type,
                           !.kind = "instance", !.instance = generator_class]

createListingBuiltins(gens, format_type) ==
    LET generator_class == Get(gens, lower(format_type)) IN
    IF generator_class = None
    THEN [NoOutcome EXCEPT !.op = "create", !.format_type = format_type,
                           !.kind = "ValueError",
                           !.available = join(<<",", " ">>,
                               <<Extension(PDFDocumentGenerator),
                                 Extension(ODTDocumentGenerator),
                                 Extension(DOCXDocumentGenerator)>>)]
    ELSE [NoOutcome EXCEPT !.op = "create", !.format_type = format_type,
                           !.kind = "instance", !.instance = generator_class]

\* DocumentGeneratorFactory.create: an instance of the bound class, or the
\* ValueError whose message names format_type and the joined keys
create(gens, format_type) ==
    LET generator_class == Get(gens, lower(format_type)) IN
    IF generator_class = None
    THEN [NoOutcome EXCEPT !.op = "create", !.format_type = format_type,
                           !.kind = "ValueError",
                           !.available = join(<<",", " ">>, Keys(gens))]
    ELSE [NoOutcome EXCEPT !.op = "create", !.format_type = format_type,
                           !.kind = "instance", !.instance = generator_class]

\* obtener_tipo_documento: the legacy entry point, delegating to create
obtener_tipo_documento(gens, tipo) == create(gens, tipo)

(***************************************************************************)
(* Inputs of the clients.                                                  *)
(***************************************************************************)
ExtraWords == << <<"t","x","t">>, <<"c","s","v">>, <<"x","m","l">> >>

BuiltinWords == {Extension(g) : g \in BuiltinClasses}

Words == BuiltinWords \cup {ExtraWords[i] : i \in 1..NumExtra}

\* each word in lower case, upper case and capitalized ("pdf", "PDF", "Pdf")
CaseVariants(w) == {w, upper(w), capitalize(w)}

\* the identifiers clients register
FormatInputs == UNION {CaseVariants(w) : w \in Words}

\* the identifiers clients look up: those, and one that nobody registers
UnknownWord == <<"x","y","z">>
LookupInputs == FormatInputs \cup CaseVariants(UnknownWord)

(***************************************************************************)
(* Module-level code: the guarded import, then the three registrations.    *)
(***************************************************************************)
ModuleRegistrations ==
    << <<<<"p","d","f">>, PDFDocumentGenerator>>,
       <<<<"o","d","t">>, ODTDocumentGenerator>>,
       <<<<"d","o","c","x">>, DOCXDocumentGenerator>> >>

\* pc: AtImport at the guarded import, i at the i-th registration, Ready after the last
AtImport == 0
Ready == Len(ModuleRegistrations) + 1

\* the call slots: MaxCalls of them start their calls through the factory, one
\* more holds a generator it was handed
Slots == 1..(MaxCalls + 1)

\* the names tempfile can give to a scratch file
TempNames == 1..(MaxCalls + 1)

\* content of a path of the scratch directory, or of a BytesIO
Absent == [state |-> "absent", by |-> 0]
EmptyFile == [state |-> "empty", by |-> 0]
Written(c) == [state |-> "written", by |-> c]

\* a null foreign key, and the null of a relationship
NoId == 0

\* the context no call has assembled
NoContext == [alumno |-> NoId, especialidad |-> NoId, facultad |-> NoId,
              universidad |-> NoId, fecha |-> <<>>]

\* the frame of a call slot: the arguments and locals of the request (id, tipo,
\* context, documento) and of generar, its outcome, and how many times it
\* looked an alumno up, assembled a context, resolved a generator, called generar;
\* bindings is the history of a create call: the classes its identifier was
\* bound to at some time since the call began
IdleCall ==
    [pc |-> "idle", op |-> "none", id |-> NoId, tipo |-> <<>>, context |-> NoContext,
     documento |-> None, carpeta |-> <<>>, plantilla |-> <<>>,
     path_template |-> <<>>, temp_path |-> 0, rendered |-> FALSE, url_for |-> FALSE,
     buf |-> Absent, result |-> "none",
     lookups |-> 0, contexts |-> 0, resolutions |-> 0, generars |-> 0,
     bindings |-> {}]

\* the ids of the alumnos table, and a row of it
Ids == 1..MaxAlumnos
NoRow == [stored |-> FALSE, especialidad_id |-> NoId]
Row(especialidad_id) == [stored |-> TRUE, especialidad_id |-> especialidad_id]

\* the especialidades and facultades the rows refer to: especialidad 1 has its
\* facultad and universidad, especialidad 2 a facultad without universidad,
\* especialidad 3 no facultad
Especialidades == <<[facultad_id |-> 1], [facultad_id |-> 2], [facultad_id |-> NoId]>>
Facultades == <<[universidad_id |-> 1], [universidad_id |-> NoId]>>

AlumnosTables ==
    [Ids -> {NoRow} \cup {Row(e) : e \in {NoId} \cup DOMAIN Especialidades}]

\* the rows of the especialidades table: the columns EspecialidadService.actualizar
\* copies (facultad and tipoespecialidad as the id of the related row)
NoEspecialidad ==
    [stored |-> FALSE, nombre |-> "", letra |-> "", observacion |-> "",
     tipoespecialidad_id |-> NoId, facultad_id |-> NoId]
EspecialidadRow(nombre, letra, observacion, tipoespecialidad_id, facultad_id) ==
    [stored |-> TRUE, nombre |-> nombre, letra |-> letra, observacion |-> observacion,
     tipoespecialidad_id |-> tipoespecialidad_id, facultad_id |-> facultad_id]

\* the table as the fixtures of the tests leave it: one row per especialidad
\* above, each "Matematicas" / "A" of the first tipoespecialidad
EspecialidadIds == DOMAIN Especialidades
EspecialidadesFixture ==
    [id \in EspecialidadIds |->
        EspecialidadRow("Matematicas", "A", "Observacion", 1,
                        Especialidades[id].facultad_id)]

\* the entities a client passes to actualizar: one equal to the fixture, one
\* with the nombre changed, one with every column changed
EspecialidadInputs ==
    {EspecialidadRow("Matematicas", "A", "Observacion", 1, 1),
     EspecialidadRow("matematica actualizada", "A", "Observacion", 1, 1),
     EspecialidadRow("matematica actualizada", "B", "", 2, NoId)}

\* the days the clock goes through: the last day of a year and the next day
Dates == <<[day |-> 31, month |-> 12, year |-> 2024],
           [day |-> 1, month |-> 1, year |-> 2025]>>

\* what no call on EspecialidadService has returned
NoResult ==
    [op |-> "none", id |-> NoId, entity_id |-> NoId, entity |-> NoEspecialidad,
     kind |-> "none", value_id |-> NoId, value |-> NoEspecialidad,
     facultad |-> NoId, universidad |-> NoId, alumnos |-> <<>>, status |-> 0]

InitModule ==
    /\ pc = AtImport
    /\ WEASYPRINT_AVAILABLE = FALSE
    /\ _generators = <<>>
    /\ ret = NoOutcome
    /\ pre = <<>>
    /\ calls = [c \in Slots |-> IdleCall]
    /\ files = [p \in TempNames |-> Absent]
    /\ especialidades = EspecialidadesFixture
    /\ now = 1
    /\ out = NoResult

Init ==
    /\ InitModule
    /\ alumnos = [id \in Ids |-> NoRow]

\* try: from weasyprint import HTML ... except (ImportError, OSError)
ImportWeasyprint ==
    /\ pc = AtImport
    /\ \E available \in BOOLEAN : WEASYPRINT_AVAILABLE' = available
    /\ pc' = 1
    /\ UNCHANGED <<_generators, ret, pre, calls, files, alumnos, especialidades, now, out>>

ModuleRegisterIfAvailable ==
    /\ pc \in DOMAIN ModuleRegistrations
    /\ _generators' =
          IF ModuleRegistrations[pc][2] = PDFDocumentGenerator /\ ~WEASYPRINT_AVAILABLE
          THEN _generators
          ELSE register(_generators, ModuleRegistrations[pc][1],
                        ModuleRegistrations[pc][2])
    /\ pc' = pc + 1
    /\ UNCHANGED <<WEASYPRINT_AVAILABLE, ret, pre, calls, files, alumnos, especialidades, now, out>>

\* DocumentGeneratorFactory.register('pdf', ...) / ('odt', ...) / ('docx', ...)
ModuleRegister ==
    /\ pc \in DOMAIN ModuleRegistrations
    /\ _generators' = register(_generators, ModuleRegistrations[pc][1],
                               ModuleRegistrations[pc][2])
    /\ pc' = pc + 1
    /\ UNCHANGED <<WEASYPRINT_AVAILABLE, ret, pre, calls, files, alumnos, especialidades, now, out>>

(***************************************************************************)
(* Calls made on the factory by its clients once the module is loaded.     *)
(***************************************************************************)
Register ==
    /\ pc = Ready
    /\ \E format_type \in FormatInputs, generator_class \in RegisteredByClients :
        /\ _generators' = register(_generators, format_type, generator_class)
        /\ ret' = [NoOutcome EXCEPT !.op = "register", !.format_type = format_type,
                                    !.generator_class = generator_class,
                                    !.kind = "returned"]
    /\ pre' = _generators
    /\ UNCHANGED <<pc, WEASYPRINT_AVAILABLE, calls, files, alumnos, especialidades, now, out>>

\* the identities an object can have, and generator_class(): the outcome with
\* the identity of the new instance, which no object held by the caller has
ObjectIds == {1, 2}
Instantiated(outcome, held) ==
    {[outcome EXCEPT !.oid = o] :
        o \in IF outcome.kind = "instance" THEN ObjectIds \ held ELSE {0}}

Create ==
    /\ pc = Ready
    /\ \E format_type \in LookupInputs :
        ret' \in Instantiated(create(_generators, format_type), {ret.oid})
    /\ pre' = _generators
    /\ UNCHANGED <<pc, WEASYPRINT_AVAILABLE, _generators, calls, files, alumnos, especialidades, now, out>>

GetAvailableFormatsSharing ==
    /\ pc = Ready
    /\ ret' = [NoOutcome EXCEPT !.op = "get_available_formats", !.kind = "returned",
                                !.formats = get_available_formats(_generators),
                                !.shared = TRUE]
    /\ pre' = _generators
    /\ UNCHANGED <<pc, WEASYPRINT_AVAILABLE, _generators, calls, files, alumnos, especialidades, now, out>>

\* list(...) builds a new list, which the registry does not hold
GetAvailableFormats ==
    /\ pc = Ready
    /\ ret' = [NoOutcome EXCEPT !.op = "get_available_formats", !.kind = "returned",
                                !.formats = get_available_formats(_generators)]
    /\ pre' = _generators
    /\ UNCHANGED <<pc, WEASYPRINT_AVAILABLE, _generators, calls, files, alumnos, especialidades, now, out>>

\* tipo_documento = obtener_tipo_documento(tipo)
ObtenerTipoDocumento ==
    /\ pc = Ready
    /\ \E tipo \in LookupInputs :
        ret' \in Instantiated(
                    [obtener_tipo_documento(_generators, tipo)
                        EXCEPT !.op = "obtener_tipo_documento"],
                    {ret.oid})
    /\ pre' = _generators
    /\ UNCHANGED <<pc, WEASYPRINT_AVAILABLE, _generators, calls, files, alumnos, especialidades, now, out>>

\* the caller changes the list it got: formats.pop() removes its last item,
\* from the registry too if the list is the registry's own object
ChangeFormats ==
    /\ pc = Ready
    /\ ret.op = "get_available_formats"
    /\ Len(ret.formats) > 0
    /\ ret' = [ret EXCEPT !.formats = SubSeq(ret.formats, 1, Len(ret.formats) - 1)]
    /\ _generators' = IF ret.shared
                      THEN SubSeq(_generators, 1, Len(_generators) - 1)
                      ELSE _generators
    /\ UNCHANGED <<pc, WEASYPRINT_AVAILABLE, pre, calls, files, alumnos, especialidades, now, out>>

Next ==
    \/ ImportWeasyprint
    \/ ModuleRegister
    \/ Register
    \/ Create
    \/ GetAvailableFormats

Spec == Init /\ [][Next]_vars

(***************************************************************************)
(* The generators.  A client obtains a generator from the factory and      *)
(* calls generar(carpeta, plantilla, context) on it.  The PDF generator    *)
(* touches no shared state and is one step; the ODT and DOCX generators    *)
(* are one step per operation on the scratch directory.                    *)
(***************************************************************************)
Carpetas == { <<"c","e","r","t","i","f","i","c","a","d","o">> }
Plantillas == { <<"c","e","r","t","i","f","i","c","a","d","o","_","p","d","f">>,
                <<"f","i","c","h","a">> }

\* current_app.root_path
RootPath == <<"/","a","p","p">>

\* os.path.join
PathJoin(parts) == join(<<"/">>, parts)

\* f'{carpeta}/{plantilla}.html', the name handed to render_template
pdf_template_name(carpeta, plantilla) ==
    carpeta \o <<"/">> \o plantilla \o <<".","h","t","m","l">>

\* os.path.join(current_app.root_path, f'{carpeta}', f'{plantilla}.odt')
odt_path_template(carpeta, plantilla) ==
    PathJoin(<<RootPath, carpeta, plantilla \o <<".","o","d","t">>>>)

docx_path_templateAsDoc(carpeta, plantilla) ==
    PathJoin(<<RootPath, carpeta, plantilla \o <<".","d","o","c">>>>)

\* os.path.join(current_app.root_path, f'{carpeta}', f'{plantilla}.docx')
docx_path_template(carpeta, plantilla) ==
    PathJoin(<<RootPath, carpeta, plantilla \o <<".","d","o","c","x">>>>)

\* what rendering an HTML template and converting it can end in
PdfOutcomes == {"TemplateNotFound", "RenderError", "ConversionError", "BytesIO"}

pdf_generarCheckingLast(frame, available, outcome, c) ==
    LET tried == [frame EXCEPT
                    !.pc = "done",
                    !.path_template = pdf_template_name(frame.carpeta, frame.plantilla),
                    !.rendered = TRUE,
                    !.url_for = outcome \in {"ConversionError", "BytesIO"}]
    IN IF outcome \in {"TemplateNotFound", "RenderError"}
       THEN [tried EXCEPT !.result = outcome]
       ELSE IF ~available
       THEN [tried EXCEPT !.result = "RuntimeError"]
       ELSE IF outcome = "BytesIO"
       THEN [tried EXCEPT !.result = "BytesIO", !.buf = Written(c)]
       ELSE [tried EXCEPT !.result = "RenderError"]

\* PDFDocumentGenerator.generar: the frame when the call ends
pdf_generar(frame, available, outcome, c) ==
    IF ~available
    THEN [frame EXCEPT !.pc = "done", !.result = "RuntimeError"]
    ELSE LET tried == [frame EXCEPT
                         !.pc = "done",
                         !.path_template = pdf_template_name(frame.carpeta, frame.plantilla),
                         !.rendered = TRUE,
                         !.url_for = outcome \in {"ConversionError", "BytesIO"}]
         IN CASE outcome = "BytesIO" ->
                    [tried EXCEPT !.result = "BytesIO", !.buf = Written(c)]
              [] outcome = "ConversionError" -> [tried EXCEPT !.result = "RenderError"]
              [] OTHER -> [tried EXCEPT !.result = outcome]

\* documento = DocumentGeneratorFactory.create(tipo), before documento.generar(...)
StartGenerar(c) ==
    /\ pc = Ready
    /\ calls[c].pc = "idle"
    /\ \E tipo \in LookupInputs, carpeta \in Carpetas, plantilla \in Plantillas :
        LET r == create(_generators, tipo) IN
        calls' = [calls EXCEPT ![c] =
            IF r.kind = "instance"
            THEN [IdleCall EXCEPT !.pc = "generar", !.op = "generar",
                                  !.documento = r.instance, !.resolutions = 1,
                                  !.carpeta = carpeta, !.plantilla = plantilla,
                                  !.generars = 1]
            ELSE [IdleCall EXCEPT !.pc = "done", !.op = "generar",
                                  !.resolutions = 1, !.result = r.kind]]
    /\ UNCHANGED <<pc, WEASYPRINT_AVAILABLE, _generators, ret, pre, files, alumnos, especialidades, now, out>>

PDF_Generar(c) ==
    /\ calls[c].pc = "generar"
    /\ calls[c].documento = PDFDocumentGenerator
    /\ \E outcome \in PdfOutcomes :
        calls' = [calls EXCEPT ![c] =
                    pdf_generar(calls[c], WEASYPRINT_AVAILABLE, outcome, c)]
    /\ UNCHANGED <<pc, WEASYPRINT_AVAILABLE, _generators, ret, pre, files, alumnos, especialidades, now, out>>

NamedTemporaryFileFixedName(c, frame) ==
    \E p \in {1} :
        /\ files' = [files EXCEPT ![p] = EmptyFile]
        /\ calls' = [calls EXCEPT ![c] = [frame EXCEPT !.pc = "template", !.temp_path = p]]

\* tempfile.NamedTemporaryFile(delete=False): a new, empty file under a name
\* that no file has
NamedTemporaryFile(c, frame) ==
    \E p \in TempNames :
        /\ files[p] = Absent
        /\ files' = [files EXCEPT ![p] = EmptyFile]
        /\ calls' = [calls EXCEPT ![c] = [frame EXCEPT !.pc = "template", !.temp_path = p]]

\* ODTDocumentGenerator.generar up to the closed scratch file
ODT_CreateTemp(c) ==
    /\ calls[c].pc = "generar"
    /\ calls[c].documento = ODTDocumentGenerator
    /\ NamedTemporaryFile(c, [calls[c] EXCEPT
            !.url_for = TRUE,
            !.path_template = odt_path_template(calls[c].carpeta, calls[c].plantilla)])
    /\ UNCHANGED <<pc, WEASYPRINT_AVAILABLE, _generators, ret, pre, alumnos, especialidades, now, out>>

\* DOCXDocumentGenerator.generar up to the closed scratch file; DocxTemplate(path)
\* opens the template either at once or when it is rendered, by its version
DOCX_CreateTemp(c) ==
    /\ calls[c].pc = "generar"
    /\ calls[c].documento = DOCXDocumentGenerator
    /\ LET frame == [calls[c] EXCEPT !.path_template =
                        docx_path_template(calls[c].carpeta, calls[c].plantilla)]
       IN \/ /\ calls' = [calls EXCEPT ![c] =
                            [frame EXCEPT !.pc = "done", !.result = "TemplateNotFound"]]
             /\ UNCHANGED files
          \/ NamedTemporaryFile(c, frame)
    /\ UNCHANGED <<pc, WEASYPRINT_AVAILABLE, _generators, ret, pre, alumnos, especialidades, now, out>>

\* what opening, rendering and writing out a template can end in
RenderOutcomes == {"TemplateNotFound", "RenderError", "OSError", "written"}

\* the scratch file after template.pack(temp_path) / doc.save(temp_path): the
\* document, or what a failed write left (some of it, or the empty file)
WriteScratch(c, outcome) ==
    CASE outcome = "written" ->
            files' = [files EXCEPT ![calls[c].temp_path] = Written(c)]
      [] outcome = "OSError" ->
            \/ files' = [files EXCEPT ![calls[c].temp_path] = Written(c)]
            \/ UNCHANGED files
      [] OTHER -> UNCHANGED files

RenderedFrameSwallowingErrors(frame, outcome) ==
    IF outcome = "written"
    THEN [frame EXCEPT !.pc = "read", !.rendered = TRUE]
    ELSE [frame EXCEPT !.pc = "done", !.result = "BytesIO",
                       !.rendered = (outcome # "TemplateNotFound")]

\* the frame after the template was opened, rendered and written out
RenderedFrame(frame, outcome) ==
    IF outcome = "written"
    THEN [frame EXCEPT !.pc = "read", !.rendered = TRUE]
    ELSE [frame EXCEPT !.pc = "done", !.result = outcome,
                       !.rendered = (outcome # "TemplateNotFound")]

\* with ODTTemplate(path_template) as template: render, template.pack(temp_path)
ODT_RenderPack(c) ==
    /\ calls[c].pc = "template"
    /\ calls[c].documento = ODTDocumentGenerator
    /\ \E outcome \in RenderOutcomes :
        /\ WriteScratch(c, outcome)
        /\ calls' = [calls EXCEPT ![c] = RenderedFrame(calls[c], outcome)]
    /\ UNCHANGED <<pc, WEASYPRINT_AVAILABLE, _generators, ret, pre, alumnos, especialidades, now, out>>

\* doc.render(context, jinja_env); doc.save(temp_path)
DOCX_RenderSave(c) ==
    /\ calls[c].pc = "template"
    /\ calls[c].documento = DOCXDocumentGenerator
    /\ \E outcome \in RenderOutcomes :
        /\ WriteScratch(c, outcome)
        /\ calls' = [calls EXCEPT ![c] = RenderedFrame(calls[c], outcome)]
    /\ UNCHANGED <<pc, WEASYPRINT_AVAILABLE, _generators, ret, pre, alumnos, especialidades, now, out>>

\* with open(temp_path, 'rb') as f: buffer.write(f.read())
ReadBack(c) ==
    /\ calls[c].pc = "read"
    /\ \E ok \in BOOLEAN :
        calls' = [calls EXCEPT ![c] =
            IF ok /\ files[calls[c].temp_path] # Absent
            THEN [calls[c] EXCEPT !.pc = "unlink", !.buf = files[calls[c].temp_path]]
            ELSE [calls[c] EXCEPT !.pc = "done", !.result = "OSError"]]
    /\ UNCHANGED <<pc, WEASYPRINT_AVAILABLE, _generators, ret, pre, files, alumnos, especialidades, now, out>>

\* os.unlink(temp_path); buffer.seek(0); return buffer
Unlink(c) ==
    /\ calls[c].pc = "unlink"
    /\ IF files[calls[c].temp_path] = Absent
       THEN /\ calls' = [calls EXCEPT ![c] =
                            [calls[c] EXCEPT !.pc = "done", !.result = "OSError"]]
            /\ UNCHANGED files
       ELSE /\ files' = [files EXCEPT ![calls[c].temp_path] = Absent]
            /\ calls' = [calls EXCEPT ![c] =
                            [calls[c] EXCEPT !.pc = "done", !.result = "BytesIO"]]
    /\ UNCHANGED <<pc, WEASYPRINT_AVAILABLE, _generators, ret, pre, alumnos, especialidades, now, out>>

\* the client is done with the outcome of its call
Return(c) ==
    /\ calls[c].pc = "done"
    /\ calls' = [calls EXCEPT ![c] = IdleCall]
    /\ UNCHANGED <<pc, WEASYPRINT_AVAILABLE, _generators, ret, pre, files, alumnos, especialidades, now, out>>

NextGen ==
    \/ ImportWeasyprint
    \/ ModuleRegister
    \/ \E c \in 1..MaxCalls :
        \/ StartGenerar(c)
        \/ PDF_Generar(c)
        \/ ODT_CreateTemp(c)
        \/ ODT_RenderPack(c)
        \/ DOCX_CreateTemp(c)
        \/ DOCX_RenderSave(c)
        \/ ReadBack(c)
        \/ Unlink(c)
        \/ Return(c)

SpecGen == Init /\ [][NextGen]_vars

(***************************************************************************)
(* AlumnoService.generar_certificado_alumno_regular.  The handler up to    *)
(* its call of documento.generar is one step; generar then runs as above.  *)
(***************************************************************************)
\* cls.repository.buscar_por_id(id): the row, NoRow when none has that id
buscar_por_id(table, id) == IF id \in DOMAIN table THEN table[id] ELSE NoRow

\* the digits of a number, as strftime writes them
Digits == <<"0","1","2","3","4","5","6","7","8","9">>
Digit(n) == Digits[n + 1]
\* %d: the day of the month on two digits
TwoDigits(n) == <<Digit(n \div 10), Digit(n % 10)>>
\* %Y: the year on four digits
FourDigits(n) ==
    <<Digit(n \div 1000), Digit((n \div 100) % 10), Digit((n \div 10) % 10),
      Digit(n % 10)>>
\* %B: the name of the month (in the C locale, which the code does not change)
MonthNames ==
    << <<"J","a","n","u","a","r","y">>,
       <<"F","e","b","r","u","a","r","y">>,
       <<"M","a","r","c","h">>,
       <<"A","p","r","i","l">>,
       <<"M","a","y">>,
       <<"J","u","n","e">>,
       <<"J","u","l","y">>,
       <<"A","u","g","u","s","t">>,
       <<"S","e","p","t","e","m","b","e","r">>,
       <<"O","c","t","o","b","e","r">>,
       <<"N","o","v","e","m","b","e","r">>,
       <<"D","e","c","e","m","b","e","r">> >>

\* date.strftime('%d de %B de %Y')
strftime(date) ==
    TwoDigits(date.day) \o <<" ","d","e"," ">> \o MonthNames[date.month]
        \o <<" ","d","e"," ">> \o FourDigits(date.year)

_obtener_fecha_actualAtImport == strftime(Dates[1])

\* AlumnoService._obtener_fecha_actual: datetime.datetime.now() formatted
_obtener_fecha_actual == strftime(Dates[now])

\* AlumnoService._obtener_contexto_alumno: the dict, or the AttributeError of
\* None.facultad / None.universidad
_obtener_contexto_alumno(id, alumno) ==
    LET especialidad == alumno.especialidad_id IN
    IF especialidad = NoId
    THEN [kind |-> "AttributeError", context |-> NoContext]
    ELSE LET facultad == Especialidades[especialidad].facultad_id IN
         IF facultad = NoId
         THEN [kind |-> "AttributeError", context |-> NoContext]
         ELSE [kind |-> "dict",
               context |-> [alumno |-> id, especialidad |-> especialidad,
                            facultad |-> facultad,
                            universidad |-> Facultades[facultad].universidad_id,
                            fecha |-> _obtener_fecha_actual]]

\* the arguments generar_certificado_alumno_regular passes to generar
CertificadoCarpeta == <<"c","e","r","t","i","f","i","c","a","d","o">>
CertificadoPlantilla == <<"c","e","r","t","i","f","i","c","a","d","o","_","p","d","f">>

generar_certificado_alumno_regularResolvingFirst(table, gens, id, tipo) ==
    LET request == [IdleCall EXCEPT !.op = "certificado", !.id = id, !.tipo = tipo,
                                    !.resolutions = 1]
        documento == obtener_tipo_documento(gens, tipo)
        alumno == buscar_por_id(table, id)
    IN IF documento.kind # "instance"
       THEN [request EXCEPT !.pc = "done", !.result = documento.kind]
       ELSE IF ~alumno.stored
       THEN [request EXCEPT !.pc = "done", !.result = "None", !.lookups = 1]
       ELSE LET contexto == _obtener_contexto_alumno(id, alumno) IN
            IF contexto.kind # "dict"
            THEN [request EXCEPT !.pc = "done", !.result = contexto.kind,
                                 !.lookups = 1, !.contexts = 1]
            ELSE [request EXCEPT !.pc = "generar", !.lookups = 1, !.contexts = 1,
                                 !.context = contexto.context,
                                 !.documento = documento.instance,
                                 !.carpeta = CertificadoCarpeta,
                                 !.plantilla = CertificadoPlantilla,
                                 !.generars = 1]

\* generar_certificado_alumno_regular(id, tipo): the frame when the handler
\* returns, raises, or calls documento.generar
generar_certificado_alumno_regular(table, gens, id, tipo) ==
    LET request == [IdleCall EXCEPT !.op = "certificado", !.id = id, !.tipo = tipo,
                                    !.lookups = 1]
        alumno == buscar_por_id(table, id)
    IN IF ~alumno.stored
       THEN [request EXCEPT !.pc = "done", !.result = "None"]
       ELSE LET contexto == _obtener_contexto_alumno(id, alumno)
                found == [request EXCEPT !.contexts = 1]
            IN IF contexto.kind # "dict"
               THEN [found EXCEPT !.pc = "done", !.result = contexto.kind]
               ELSE LET documento == obtener_tipo_documento(gens, tipo)
                        resolved == [found EXCEPT !.context = contexto.context,
                                                  !.resolutions = 1]
                    IN IF documento.kind # "instance"
                       THEN [resolved EXCEPT !.pc = "done", !.result = documento.kind]
                       ELSE IF documento.instance = None
                       THEN [resolved EXCEPT !.pc = "done", !.result = "None"]
                       ELSE [resolved EXCEPT !.pc = "generar",
                                             !.documento = documento.instance,
                                             !.carpeta = CertificadoCarpeta,
                                             !.plantilla = CertificadoPlantilla,
                                             !.generars = 1]

Certificado(c) ==
    /\ pc = Ready
    /\ calls[c].pc = "idle"
    /\ \E id \in Ids, tipo \in LookupInputs :
        calls' = [calls EXCEPT ![c] =
                    generar_certificado_alumno_regular(alumnos, _generators, id, tipo)]
    /\ UNCHANGED <<pc, WEASYPRINT_AVAILABLE, _generators, ret, pre, files, alumnos, especialidades, now, out>>

\* the rows stored when the requests arrive
InitCert ==
    /\ InitModule
    /\ alumnos \in AlumnosTables

\* the slot of the request being served
Request == 1

NextCert ==
    \/ ImportWeasyprint
    \/ ModuleRegister
    \/ Certificado(Request)
    \/ PDF_Generar(Request)
    \/ ODT_CreateTemp(Request)
    \/ ODT_RenderPack(Request)
    \/ DOCX_CreateTemp(Request)
    \/ DOCX_RenderSave(Request)
    \/ ReadBack(Request)
    \/ Unlink(Request)
    \/ Return(Request)

SpecCert == InitCert /\ [][NextCert]_vars

(***************************************************************************)
(* A client thread that reads the factory (create, obtener_tipo_documento, *)
(* get_available_formats), changes the list it got, and runs the generator *)
(* it got, one call at a time.                                             *)
(***************************************************************************)
\* the client thread is in no call
ClientIdle == calls[Request].pc = "idle"

\* the client calls generar on the generator it last got from the factory:
\* documento.generar(carpeta='certificado', plantilla='certificado_pdf', context=...)
GenerarOn(c) ==
    /\ pc = Ready
    /\ calls[c].pc = "idle"
    /\ ret.kind = "instance"
    /\ ret.instance \in BuiltinClasses
    /\ calls' = [calls EXCEPT ![c] =
            [IdleCall EXCEPT !.pc = "generar", !.op = "generar",
                             !.documento = ret.instance,
                             !.carpeta = CertificadoCarpeta,
                             !.plantilla = CertificadoPlantilla,
                             !.generars = 1]]
    /\ UNCHANGED <<pc, WEASYPRINT_AVAILABLE, _generators, ret, pre, files, alumnos, especialidades, now, out>>

NextFrame ==
    \/ ImportWeasyprint
    \/ ModuleRegister
    \/ ClientIdle /\ Create
    \/ ClientIdle /\ ObtenerTipoDocumento
    \/ ClientIdle /\ GetAvailableFormats
    \/ ClientIdle /\ ChangeFormats
    \/ GenerarOn(Request)
    \/ PDF_Generar(Request)
    \/ ODT_CreateTemp(Request)
    \/ ODT_RenderPack(Request)
    \/ DOCX_CreateTemp(Request)
    \/ DOCX_RenderSave(Request)
    \/ ReadBack(Request)
    \/ Unlink(Request)
    \/ Return(Request)

SpecFrame == Init /\ [][NextFrame]_vars

(***************************************************************************)
(* AlumnoService._obtener_contexto_alumno called on its own, on the days   *)
(* the clock goes through.                                                 *)
(***************************************************************************)
\* midnight: the clock moves to the next day
Tick ==
    /\ now < Len(Dates)
    /\ now' = now + 1
    /\ UNCHANGED <<pc, WEASYPRINT_AVAILABLE, _generators, ret, pre, calls, files, alumnos, especialidades, out>>

\* context = cls._obtener_contexto_alumno(alumno), for an alumno that is stored
Contexto(c) ==
    /\ calls[c].pc = "idle"
    /\ \E id \in Ids :
        /\ alumnos[id].stored
        /\ LET contexto == _obtener_contexto_alumno(id, alumnos[id]) IN
           calls' = [calls EXCEPT ![c] =
                [IdleCall EXCEPT !.pc = "done", !.op = "contexto", !.id = id,
                                 !.contexts = 1, !.context = contexto.context,
                                 !.result = contexto.kind]]
    /\ UNCHANGED <<pc, WEASYPRINT_AVAILABLE, _generators, ret, pre, files, alumnos, especialidades, now, out>>

NextContext ==
    \/ Tick
    \/ Contexto(Request)
    \/ Return(Request)

SpecContext == InitCert /\ [][NextContext]_vars

(***************************************************************************)
(* EspecialidadService over EspecialidadRepository.  A commit makes the     *)
(* changes of the session the content of the table.                        *)
(***************************************************************************)
\* db.session.query(Especialidad).filter_by(id=id).first()
EspecialidadRepository_buscar_por_id(table, id) ==
    IF id \in DOMAIN table THEN table[id] ELSE NoEspecialidad

borrar_por_idAlwaysTrue(table, id) ==
    [kind |-> "True",
     table |-> [j \in DOMAIN table |-> IF j = id THEN NoEspecialidad ELSE table[j]]]

\* EspecialidadRepository.borrar_por_id: what it returns and the table after it
borrar_por_id(table, id) ==
    LET especialidad == EspecialidadRepository_buscar_por_id(table, id) IN
    IF ~especialidad.stored
    THEN [kind |-> "False", table |-> table]
    ELSE [kind |-> "True", table |-> [table EXCEPT ![id] = NoEspecialidad]]

actualizarMergingEntity(table, id, entity_id, especialidad) ==
    LET especialidad_existente == EspecialidadRepository_buscar_por_id(table, id) IN
    IF ~especialidad_existente.stored
    THEN [kind |-> "None", value_id |-> NoId, value |-> NoEspecialidad, table |-> table]
    ELSE [kind |-> "entity", value_id |-> entity_id, value |-> especialidad,
          table |-> [j \in DOMAIN table |->
                        IF j = entity_id THEN especialidad ELSE table[j]]]

\* EspecialidadService.actualizar(id, especialidad), especialidad being an
\* entity whose own id is entity_id: the entity returned and the table after
\* EspecialidadRepository.actualizar merged and committed it
actualizar(table, id, entity_id, especialidad) ==
    LET especialidad_existente == EspecialidadRepository_buscar_por_id(table, id) IN
    IF ~especialidad_existente.stored
    THEN [kind |-> "None", value_id |-> NoId, value |-> NoEspecialidad, table |-> table]
    ELSE LET actualizada ==
                [especialidad_existente EXCEPT
                    !.nombre = especialidad.nombre,
                    !.letra = especialidad.letra,
                    !.observacion = especialidad.observacion,
                    !.tipoespecialidad_id = especialidad.tipoespecialidad_id,
                    !.facultad_id = especialidad.facultad_id]
         IN [kind |-> "entity", value_id |-> id, value |-> actualizada,
             table |-> [table EXCEPT ![id] = actualizada]]

\* the ids of the requests: those of the fixtures and one that no row has
CrudIds == EspecialidadIds \cup {Len(Especialidades) + 1}

BuscarPorId ==
    \E id \in CrudIds :
        /\ LET r == EspecialidadRepository_buscar_por_id(especialidades, id) IN
           out' = [NoResult EXCEPT !.op = "buscar_por_id", !.id = id,
                                   !.kind = IF r.stored THEN "entity" ELSE "None",
                                   !.value_id = IF r.stored THEN id ELSE NoId,
                                   !.value = r]
        /\ UNCHANGED <<pc, WEASYPRINT_AVAILABLE, _generators, ret, pre, calls, files, alumnos, especialidades, now>>

BorrarPorId ==
    \E id \in CrudIds :
        /\ LET r == borrar_por_id(especialidades, id) IN
           /\ out' = [NoResult EXCEPT !.op = "borrar_por_id", !.id = id,
                                      !.kind = r.kind]
           /\ especialidades' = r.table
        /\ UNCHANGED <<pc, WEASYPRINT_AVAILABLE, _generators, ret, pre, calls, files, alumnos, now>>

Actualizar ==
    \E id \in CrudIds, entity_id \in {NoId} \cup EspecialidadIds,
       especialidad \in EspecialidadInputs :
        /\ LET r == actualizar(especialidades, id, entity_id, especialidad) IN
           /\ out' = [NoResult EXCEPT !.op = "actualizar", !.id = id,
                                      !.entity_id = entity_id,
                                      !.entity = especialidad,
                                      !.kind = r.kind, !.value_id = r.value_id,
                                      !.value = r.value]
           /\ especialidades' = r.table
        /\ UNCHANGED <<pc, WEASYPRINT_AVAILABLE, _generators, ret, pre, calls, files, alumnos, now>>

NextCrud ==
    \/ BuscarPorId
    \/ BorrarPorId
    \/ Actualizar

SpecCrud == Init /\ [][NextCrud]_vars

(***************************************************************************)
(* GET /especialidad/<id>/alumnos: the resource, the service and the query *)
(* of the repository.                                                      *)
(***************************************************************************)
\* db.session.query(Alumno).filter_by(especialidad_id=especialidad_id).all():
\* the ids of the rows, in the order of the table
EspecialidadRepository_buscar_alumnos_por_especialidad(table, especialidad_id) ==
    SelectSeq([i \in 1..MaxAlumnos |-> i],
              LAMBDA a : table[a].stored /\ table[a].especialidad_id = especialidad_id)

\* EspecialidadService.buscar_alumnos_por_especialidad: None, the dict, or the
\* AttributeError of None.id when the facultad or its universidad is null
buscar_alumnos_por_especialidad(table, alumnado, especialidad_id) ==
    LET especialidad == EspecialidadRepository_buscar_por_id(table, especialidad_id)
        result == [NoResult EXCEPT !.op = "buscar_alumnos_por_especialidad",
                                   !.id = especialidad_id]
    IN IF ~especialidad.stored
       THEN [result EXCEPT !.kind = "None"]
       ELSE IF especialidad.facultad_id = NoId
       THEN [result EXCEPT !.kind = "AttributeError"]
       ELSE IF Facultades[especialidad.facultad_id].universidad_id = NoId
       THEN [result EXCEPT !.kind = "AttributeError"]
       ELSE [result EXCEPT
                !.kind = "dict",
                !.value_id = especialidad_id,
                !.value = especialidad,
                !.facultad = especialidad.facultad_id,
                !.universidad = Facultades[especialidad.facultad_id].universidad_id,
                !.alumnos = EspecialidadRepository_buscar_alumnos_por_especialidad(
                                alumnado, especialidad_id)]

\* the resource: 400 for a null id, 404 for None, 200 with the dict; an
\* exception of the service is answered by the framework with 500
BuscarAlumnosPorEspecialidad ==
    \E id \in {NoId} \cup CrudIds :
        /\ out' =
            IF id = NoId
            THEN [NoResult EXCEPT !.op = "buscar_alumnos_por_especialidad",
                                  !.status = 400]
            ELSE LET resultado ==
                        buscar_alumnos_por_especialidad(especialidades, alumnos, id)
                 IN [resultado EXCEPT !.status =
                        CASE resultado.kind = "None" -> 404
                          [] resultado.kind = "dict" -> 200
                          [] OTHER -> 500]
        /\ UNCHANGED <<pc, WEASYPRINT_AVAILABLE, _generators, ret, pre, calls, files, alumnos, especialidades, now>>

NextAlumnos == BuscarAlumnosPorEspecialidad

SpecAlumnos == InitCert /\ [][NextAlumnos]_vars

(***************************************************************************)
(* DocumentGeneratorFactory.create running in one thread while another     *)
(* thread registers.  Neither method takes a lock; the interpreter runs    *)
(* each dict operation (get, item assignment) as one step, so create is    *)
(* three steps: format_type.lower(), the dict.get, and the instantiation   *)
(* or the raise.                                                           *)
(***************************************************************************)
\* a create call whose identifier is f up to case is between its first and
\* its last step
InCreate(frame, f) ==
    /\ frame.op = "create"
    /\ frame.pc \in {"lower", "got"}
    /\ lower(frame.tipo) = lower(f)

\* the frames once f is bound to generator_class: the history of the create
\* calls in flight for f gains the class
Bound(f, generator_class) ==
    [c \in DOMAIN calls |->
        IF InCreate(calls[c], f)
        THEN [calls[c] EXCEPT !.bindings = @ \cup {generator_class}]
        ELSE calls[c]]

\* create(format_type) is called: format_type.lower() is evaluated
CreateCall(c) ==
    /\ pc = Ready
    /\ calls[c].pc = "idle"
    /\ \E format_type \in LookupInputs :
        calls' = [calls EXCEPT ![c] =
            [IdleCall EXCEPT !.pc = "lower", !.op = "create", !.tipo = format_type,
                             !.bindings = {Get(_generators, lower(format_type))}]]
    /\ UNCHANGED <<pc, WEASYPRINT_AVAILABLE, _generators, ret, pre, files, alumnos, especialidades, now, out>>

\* generator_class = cls._generators.get(format_type.lower())
CreateGet(c) ==
    /\ calls[c].op = "create"
    /\ calls[c].pc = "lower"
    /\ calls' = [calls EXCEPT ![c] =
            [calls[c] EXCEPT !.pc = "got", !.resolutions = 1,
                             !.documento = Get(_generators, lower(calls[c].tipo))]]
    /\ UNCHANGED <<pc, WEASYPRINT_AVAILABLE, _generators, ret, pre, files, alumnos, especialidades, now, out>>

\* if not generator_class: raise ValueError(...); return generator_class()
CreateReturn(c) ==
    /\ calls[c].op = "create"
    /\ calls[c].pc = "got"
    /\ calls' = [calls EXCEPT ![c] =
            [calls[c] EXCEPT !.pc = "done",
                             !.result = IF calls[c].documento = None
                                        THEN "ValueError" ELSE "instance"]]
    /\ UNCHANGED <<pc, WEASYPRINT_AVAILABLE, _generators, ret, pre, files, alumnos, especialidades, now, out>>

\* d.pop(k): the dict without the key k
Pop(gens, k) == SelectSeq(gens, LAMBDA kv : kv[1] # k)

RegisterDuringPoppingFirst ==
    /\ pc = Ready
    /\ IF ret.kind = "popping"
       THEN /\ _generators' = register(_generators, ret.format_type, ret.generator_class)
            /\ ret' = [ret EXCEPT !.kind = "returned"]
            /\ calls' = Bound(ret.format_type, ret.generator_class)
       ELSE \E format_type \in FormatInputs, generator_class \in RegisteredByClients :
            /\ \E c \in DOMAIN calls : InCreate(calls[c], format_type)
            /\ HasKey(_generators, lower(format_type))
            /\ _generators' = Pop(_generators, lower(format_type))
            /\ ret' = [NoOutcome EXCEPT !.op = "register", !.format_type = format_type,
                                        !.generator_class = generator_class,
                                        !.kind = "popping"]
            /\ UNCHANGED calls
    /\ UNCHANGED <<pc, WEASYPRINT_AVAILABLE, pre, files, alumnos, especialidades, now, out>>

\* register(format_type, generator_class) called by another thread while a
\* create call for the same identifier is in flight, the identifier being bound
RegisterDuring ==
    /\ pc = Ready
    /\ \E format_type \in FormatInputs, generator_class \in RegisteredByClients :
        /\ \E c \in DOMAIN calls : InCreate(calls[c], format_type)
        /\ HasKey(_generators, lower(format_type))
        /\ _generators' = register(_generators, format_type, generator_class)
        /\ ret' = [NoOutcome EXCEPT !.op = "register", !.format_type = format_type,
                                    !.generator_class = generator_class,
                                    !.kind = "returned"]
        /\ calls' = Bound(format_type, generator_class)
    /\ UNCHANGED <<pc, WEASYPRINT_AVAILABLE, pre, files, alumnos, especialidades, now, out>>

NextRace ==
    \/ ImportWeasyprint
    \/ ModuleRegister
    \/ CreateCall(Request)
    \/ CreateGet(Request)
    \/ CreateReturn(Request)
    \/ Return(Request)
    \/ RegisterDuring

SpecRace == Init /\ [][NextRace]_vars

(***************************************************************************)
(* Threads that each hold an ODT or a DOCX generator and call its generar  *)
(* for the certificate template, all at once.                              *)
(***************************************************************************)
ScratchGenerators == {ODTDocumentGenerator, DOCXDocumentGenerator}

\* documento.generar(carpeta='certificado', plantilla='certificado_pdf', context=...)
GenerarHeld(c) ==
    /\ calls[c].pc = "idle"
    /\ \E documento \in ScratchGenerators :
        calls' = [calls EXCEPT ![c] =
            [IdleCall EXCEPT !.pc = "generar", !.op = "generar",
                             !.documento = documento,
                             !.carpeta = CertificadoCarpeta,
                             !.plantilla = CertificadoPlantilla,
                             !.generars = 1]]
    /\ UNCHANGED <<pc, WEASYPRINT_AVAILABLE, _generators, ret, pre, files, alumnos, especialidades, now, out>>

NextScratch ==
    \E c \in Slots :
        \/ GenerarHeld(c)
        \/ ODT_CreateTemp(c)
        \/ ODT_RenderPack(c)
        \/ DOCX_CreateTemp(c)
        \/ DOCX_RenderSave(c)
        \/ ReadBack(c)
        \/ Unlink(c)
        \/ Return(c)

SpecScratch == Init /\ [][NextScratch]_vars

(***************************************************************************)
(* Helpers of the properties.                                              *)
(***************************************************************************)
\* s and t are the same string up to the case of their letters
SameIgnoringCase(s, t) ==
    /\ Len(s) = Len(t)
    /\ \A i \in DOMAIN s :
          \/ s[i] = t[i]
          \/ \E j \in DOMAIN LowerCase : {s[i], t[i]} = {LowerCase[j], UpperCase[j]}

\* no key of the registry is f up to case
NotRegistered(f, gens) ==
    ~ \E i \in DOMAIN gens : SameIgnoringCase(gens[i][1], f)

RECURSIVE Split(_)
\* the identifiers a message lists: the text cut at every ", "
Split(s) ==
    IF \E i \in 1..(Len(s) - 1) : s[i] = "," /\ s[i + 1] = " "
    THEN LET i == CHOOSE k \in 1..(Len(s) - 1) :
                     /\ s[k] = "," /\ s[k + 1] = " "
                     /\ \A m \in 1..(k - 1) : ~(s[m] = "," /\ s[m + 1] = " ")
         IN <<SubSeq(s, 1, i - 1)>> \o Split(SubSeq(s, i + 2, Len(s)))
    ELSE <<s>>

\* two outcomes of create agree: the same class instantiated, or both the error
SameOutcome(a, b) == a.kind = b.kind /\ a.instance = b.instance

\* every key is bound to a class whose extension is that key
Conforming(gens) == \A i \in DOMAIN gens : Extension(gens[i][2]) = gens[i][1]

Listed(f, gens) == f \in Range(get_available_formats(gens))

(***************************************************************************)
(* C1                                                                      *)
(***************************************************************************)
\* C1 as stated: after any sequence of register calls, create(f) of every
\* identifier f that get_available_formats() returns yields a generator whose
\* extension equals f.
C1_ExtensionMatchesAnyRegistration ==
    (ret.op = "create" /\ Listed(ret.format_type, pre))
        => (ret.kind = "instance" /\ Extension(ret.instance) = ret.format_type)

\* C1 as amended: the registry left by the module-level registrations binds
\* every key to a class with that extension; a register call that binds an
\* identifier to a class whose extension is the lower-cased identifier keeps it
\* so, as do create and get_available_formats; and in such a registry create(f)
\* of every listed f yields a generator whose extension equals f.
C1_ExtensionMatchesConforming ==
    /\ (pc = Ready /\ ret.op = "none") => Conforming(_generators)
    /\ (ret.op = "register" /\ Conforming(pre)
            /\ Extension(ret.generator_class) = lower(ret.format_type))
        => Conforming(_generators)
    /\ (ret.op \in {"create", "get_available_formats"} /\ Conforming(pre))
        => Conforming(_generators)
    /\ (ret.op = "create" /\ Conforming(pre) /\ Listed(ret.format_type, pre))
        => (ret.kind = "instance" /\ Extension(ret.instance) = ret.format_type)

\* create('txt') after the stub was registered under its own extension
C1_Witness ==
    /\ ret.op = "create"
    /\ Conforming(pre)
    /\ Len(pre) = Len(ModuleRegistrations) + 1
    /\ Listed(ret.format_type, pre)
    /\ ret.instance = StubGenerator

(***************************************************************************)
(* C2                                                                      *)
(***************************************************************************)
\* C2: create treats identifiers that differ only in letter case alike (the
\* same class instantiated, or the error for both), and after register(f, G)
\* create of every case variant of f yields an instance of G.
C2_CaseInsensitive ==
    /\ ret.op = "create" =>
          \A t \in LookupInputs :
              SameIgnoringCase(t, ret.format_type) => SameOutcome(create(pre, t), ret)
    /\ ret.op = "register" =>
          \A t \in LookupInputs :
              SameIgnoringCase(t, ret.format_type) =>
                  /\ create(_generators, t).kind = "instance"
                  /\ create(_generators, t).instance = ret.generator_class

\* create('Pdf') answering with the stub that a register call bound to pdf
C2_Witness ==
    /\ ret.op = "create"
    /\ ret.format_type = <<"P","d","f">>
    /\ ret.kind = "instance"
    /\ ret.instance = StubGenerator

(***************************************************************************)
(* C3                                                                      *)
(***************************************************************************)
\* C3: create of an identifier that is not registered (up to case) raises the
\* ValueError, whose message lists exactly the keys registered at that moment,
\* yields no instance and leaves the registry as it was.
C3_UnsupportedFormat ==
    (ret.op = "create" /\ NotRegistered(ret.format_type, pre)) =>
        /\ ret.kind = "ValueError"
        /\ ret.instance = None
        /\ Range(Split(ret.available)) = Range(Keys(pre))
        /\ Len(Split(ret.available)) = Len(Keys(pre))
        /\ _generators = pre

\* create('xyz') failing while a format registered at run time is listed
C3_Witness ==
    /\ ret.op = "create"
    /\ ret.format_type = UnknownWord
    /\ ret.kind = "ValueError"
    /\ Len(pre) = Len(ModuleRegistrations) + 1
    /\ Split(ret.available)[Len(pre)] = ExtraWords[1]

(***************************************************************************)
(* C4                                                                      *)
(***************************************************************************)
\* C4: register(f, G) of an f whose lower-case form is no key adds exactly one
\* available format; register(f, G2) of an f registered in any letter case
\* keeps the number of formats, keeps every other binding, and makes the next
\* create(f) yield an instance of G2.
C4_RegisterCounts ==
    ret.op = "register" =>
        LET f == ret.format_type
            before == get_available_formats(pre)
            after == get_available_formats(_generators)
        IN /\ ~HasKey(pre, lower(f)) => Len(after) = Len(before) + 1
           /\ ~NotRegistered(f, pre) =>
                /\ Len(after) = Len(before)
                /\ \A i \in DOMAIN pre :
                      pre[i][1] # lower(f) => _generators[i] = pre[i]
                /\ create(_generators, f).kind = "instance"
                /\ create(_generators, f).instance = ret.generator_class

\* register('PDF', stub) replacing the built-in binding of pdf
C4_Witness ==
    /\ ret.op = "register"
    /\ ret.format_type = <<"P","D","F">>
    /\ ret.generator_class = StubGenerator
    /\ Get(pre, <<"p","d","f">>) = PDFDocumentGenerator
    /\ Get(_generators, <<"p","d","f">>) = StubGenerator
    /\ Len(_generators) = Len(pre)

(***************************************************************************)
(* C5                                                                      *)
(***************************************************************************)
EndsWith(s, suffix) ==
    /\ Len(s) >= Len(suffix)
    /\ SubSeq(s, Len(s) - Len(suffix) + 1, Len(s)) = suffix

\* C5: whatever the guarded import found, the module-level code registers pdf
\* (the first registration leaves pdf in the registry), the loaded registry
\* lists exactly pdf, odt and docx, create('pdf') yields a PDF generator, and
\* the RuntimeError of the missing backend is the outcome of generar calls on a
\* PDF generator only.
C5_BuiltinsWhateverTheBackend ==
    /\ pc > 1 => HasKey(_generators, <<"p","d","f">>)
    /\ pc = Ready =>
          /\ get_available_formats(_generators) =
                << <<"p","d","f">>, <<"o","d","t">>, <<"d","o","c","x">> >>
          /\ create(_generators, <<"p","d","f">>).kind = "instance"
          /\ create(_generators, <<"p","d","f">>).instance = PDFDocumentGenerator
    /\ \A c \in DOMAIN calls :
          calls[c].result = "RuntimeError" =>
              /\ ~WEASYPRINT_AVAILABLE
              /\ calls[c].documento = PDFDocumentGenerator

\* without the backend, create handed out a PDF generator that is about to run
C5_Witness ==
    /\ pc = Ready
    /\ ~WEASYPRINT_AVAILABLE
    /\ Len(get_available_formats(_generators)) = Len(ModuleRegistrations)
    /\ \E c \in DOMAIN calls :
          calls[c].pc = "generar" /\ calls[c].documento = PDFDocumentGenerator

(***************************************************************************)
(* C6                                                                      *)
(***************************************************************************)
\* C6: without the backend, the step that runs generar of a PDF generator ends
\* the call with the RuntimeError, having rendered no template, resolved no
\* URL, named no template and created no scratch file, and leaves the scratch
\* directory as it was.
C6_BackendUnavailable ==
    [][\A c \in DOMAIN calls :
          (/\ ~WEASYPRINT_AVAILABLE
           /\ calls[c].pc = "generar"
           /\ calls[c].documento = PDFDocumentGenerator
           /\ calls'[c] # calls[c])
          => /\ calls'[c].pc = "done"
             /\ calls'[c].result = "RuntimeError"
             /\ ~calls'[c].rendered
             /\ ~calls'[c].url_for
             /\ calls'[c].path_template = <<>>
             /\ calls'[c].temp_path = 0
             /\ calls'[c].buf = Absent
             /\ files' = files]_vars

\* a PDF generar call that ended with the RuntimeError
C6_Witness ==
    /\ ~WEASYPRINT_AVAILABLE
    /\ \E c \in DOMAIN calls :
          /\ calls[c].pc = "done"
          /\ calls[c].documento = PDFDocumentGenerator
          /\ calls[c].result = "RuntimeError"

(***************************************************************************)
(* C7                                                                      *)
(***************************************************************************)
\* C7: when a generar call of the ODT or DOCX generator exits, by a return or
\* by any failure, the scratch file it created no longer exists.
C7_ScratchRemovedOnEveryExit ==
    [][\A c \in DOMAIN calls :
          (/\ calls[c].pc # "done"
           /\ calls'[c].pc = "done"
           /\ calls'[c].documento \in {ODTDocumentGenerator, DOCXDocumentGenerator}
           /\ calls'[c].temp_path # 0)
          => files'[calls'[c].temp_path] = Absent]_vars

(***************************************************************************)
(* C9                                                                      *)
(***************************************************************************)
\* carpeta/plantilla.extension
TemplateFile(carpeta, plantilla, extension) ==
    carpeta \o <<"/">> \o plantilla \o <<".">> \o extension

\* C9 as stated: every generator, the PDF one included, looks its template up
\* at carpeta/plantilla.<its own extension>.
C9_TemplateHasOwnExtension ==
    \A c \in DOMAIN calls :
        calls[c].path_template # <<>> =>
            EndsWith(calls[c].path_template,
                     TemplateFile(calls[c].carpeta, calls[c].plantilla,
                                  Extension(calls[c].documento)))

\* C9 as amended: the ODT and DOCX generators look their template up at
\* carpeta/plantilla.<own extension> under the application root; the PDF
\* generator looks up carpeta/plantilla.html.
C9_TemplatePerGenerator ==
    \A c \in DOMAIN calls :
        calls[c].path_template # <<>> =>
            IF calls[c].documento = PDFDocumentGenerator
            THEN calls[c].path_template =
                    TemplateFile(calls[c].carpeta, calls[c].plantilla,
                                 <<"h","t","m","l">>)
            ELSE calls[c].path_template =
                    RootPath \o <<"/">> \o
                    TemplateFile(calls[c].carpeta, calls[c].plantilla,
                                 Extension(calls[c].documento))

\* a DOCX call that has named its template, for the plantilla 'ficha'
C9_Witness ==
    \E c \in DOMAIN calls :
        /\ calls[c].documento = DOCXDocumentGenerator
        /\ calls[c].plantilla = <<"f","i","c","h","a">>
        /\ calls[c].pc = "read"
        /\ EndsWith(calls[c].path_template, <<".","d","o","c","x">>)

(***************************************************************************)
(* C8                                                                      *)
(***************************************************************************)
\* the alumno with this id is stored and its especialidad, the facultad of
\* that, or the universidad of that, is null
NullAncestor(id) ==
    /\ alumnos[id].stored
    /\ LET especialidad == alumnos[id].especialidad_id IN
       \/ especialidad = NoId
       \/ Especialidades[especialidad].facultad_id = NoId
       \/ Facultades[Especialidades[especialidad].facultad_id].universidad_id = NoId

\* C8: a request for an alumno with a null especialidad, facultad or
\* universidad fails in the context assembly: it ends with the error of the
\* missing relation, assembles no context and goes no further.
C8_NullAncestorFails ==
    \A c \in DOMAIN calls :
        (calls[c].op = "certificado" /\ NullAncestor(calls[c].id)) =>
            /\ calls[c].pc = "done"
            /\ calls[c].result = "AttributeError"
            /\ calls[c].context = NoContext
            /\ calls[c].resolutions = 0
            /\ calls[c].generars = 0

Failures ==
    {"AttributeError", "ValueError", "RuntimeError", "TemplateNotFound",
     "RenderError", "OSError"}

C12_CreateDuringRegister ==
    /\ \A c \in DOMAIN calls :
        (calls[c].op = "create" /\ None \notin calls[c].bindings) =>
            /\ calls[c].pc = "got" => calls[c].documento \in calls[c].bindings
            /\ calls[c].pc = "done" =>
                  /\ calls[c].result = "instance"
                  /\ calls[c].documento \in calls[c].bindings
    /\ ret.op = "register" =>
          Get(_generators, lower(ret.format_type)) = ret.generator_class

\* create returned an instance of the class its identifier was bound to
\* before a register call that ran during it bound the identifier to another
C12_Witness ==
    \E c \in DOMAIN calls :
        /\ calls[c].op = "create"
        /\ calls[c].pc = "done"
        /\ calls[c].result = "instance"
        /\ Cardinality(calls[c].bindings) = 2
        /\ ret.op = "register"
        /\ lower(ret.format_type) = lower(calls[c].tipo)
        /\ calls[c].documento # ret.generator_class
        /\ Get(_generators, lower(calls[c].tipo)) = ret.generator_class

(***************************************************************************)
(* C13                                                                     *)
(***************************************************************************)
\* the call of slot c is between the creation of its scratch file and its end
HoldsScratch(c) == calls[c].pc \in {"template", "read", "unlink"}

\* C13: no two ODT / DOCX generar calls in flight hold the same scratch path,
\* and the bytes a call has read back or returns are the ones it wrote itself.
C13_OwnScratchFile ==
    /\ \A c, d \in DOMAIN calls :
        (c # d /\ HoldsScratch(c) /\ HoldsScratch(d)) =>
            calls[c].temp_path # calls[d].temp_path
    /\ \A c \in DOMAIN calls :
        /\ HoldsScratch(c) => files[calls[c].temp_path] \in {EmptyFile, Written(c)}
        /\ (calls[c].pc = "unlink" \/ calls[c].result = "BytesIO") =>
              calls[c].buf = Written(c)

\* two calls in flight at once, each having read its own bytes back from its
\* own scratch file
C13_Witness ==
    \E c, d \in DOMAIN calls :
        /\ c # d
        /\ calls[c].pc = "unlink" /\ calls[d].pc = "unlink"
        /\ calls[c].documento = ODTDocumentGenerator
        /\ calls[d].documento = DOCXDocumentGenerator
        /\ calls[c].temp_path # calls[d].temp_path
        /\ calls[c].buf = Written(c) /\ calls[d].buf = Written(d)

(***************************************************************************)
(* C14                                                                     *)
(***************************************************************************)
\* the alumno of this id is stored and has especialidad, facultad, universidad
FullChain(id) == alumnos[id].stored /\ ~NullAncestor(id)

\* the number a digit stands for
ParseDigit(ch) == (CHOOSE i \in DOMAIN Digits : Digits[i] = ch) - 1

\* the date a text "dd de Month de yyyy" names
ParseFecha(s) ==
    [day |-> 10 * ParseDigit(s[1]) + ParseDigit(s[2]),
     month |-> CHOOSE k \in DOMAIN MonthNames : MonthNames[k] = SubSeq(s, 7, Len(s) - 8),
     year |-> 1000 * ParseDigit(s[Len(s) - 3]) + 100 * ParseDigit(s[Len(s) - 2])
                + 10 * ParseDigit(s[Len(s) - 1]) + ParseDigit(s[Len(s)])]

\* C14: assembling the context of an alumno whose especialidad, facultad and
\* universidad are all present returns a dict with the alumno, its
\* especialidad, that one's facultad, that one's universidad and the text of
\* the day the call is made on, and changes no table, registry or file.
C14_ContextAssembly ==
    [][\A c \in DOMAIN calls :
          (calls[c].pc = "idle" /\ calls'[c].op = "contexto"
              /\ FullChain(calls'[c].id)) =>
            LET id == calls'[c].id
                context == calls'[c].context IN
            /\ calls'[c].result = "dict"
            /\ context.alumno = id
            /\ context.especialidad = alumnos[id].especialidad_id
            /\ context.facultad = Especialidades[context.especialidad].facultad_id
            /\ context.universidad = Facultades[context.facultad].universidad_id
            /\ context.universidad # NoId
            /\ Len(context.fecha) > 14
            /\ ParseFecha(context.fecha) = Dates[now]
            /\ alumnos' = alumnos /\ especialidades' = especialidades
            /\ _generators' = _generators /\ files' = files /\ now' = now]_vars

\* a context assembled on the second day, for an alumno with all its ancestors
C14_Witness ==
    \E c \in DOMAIN calls :
        /\ calls[c].op = "contexto"
        /\ calls[c].result = "dict"
        /\ FullChain(calls[c].id)
        /\ now = 2
        /\ calls[c].context.fecha = strftime(Dates[2])

(***************************************************************************)
(* C15                                                                     *)
(***************************************************************************)
\* C15: borrar_por_id(id) returns True exactly when a row has that id; after
\* True no row has the id and every other row is as it was; after False the
\* table is as it was.
C15_BorrarPorId ==
    [][(out'.op = "borrar_por_id"
            /\ (out' # out \/ especialidades' # especialidades)) =>
        LET id == out'.id IN
        /\ out'.kind \in {"True", "False"}
        /\ out'.kind = "True" <=>
              EspecialidadRepository_buscar_por_id(especialidades, id).stored
        /\ out'.kind = "True" =>
              /\ ~EspecialidadRepository_buscar_por_id(especialidades', id).stored
              /\ \A j \in EspecialidadIds \ {id} :
                    especialidades'[j] = especialidades[j]
              /\ alumnos' = alumnos
        /\ out'.kind = "False" =>
              /\ especialidades' = especialidades
              /\ alumnos' = alumnos]_vars

\* a row was deleted and another row is still stored
C15_Witness ==
    /\ out.op = "borrar_por_id"
    /\ out.kind = "True"
    /\ ~especialidades[out.id].stored
    /\ \E j \in EspecialidadIds : especialidades[j].stored

(***************************************************************************)
(* C17                                                                     *)
(***************************************************************************)
\* C17: actualizar(id, entity) for an id that a row has returns the stored
\* entity, whose nombre, letra, observacion, tipoespecialidad and facultad are
\* those of the entity passed and whose id is the id passed, and leaves every
\* other row as it was; for an id that no row has it returns None and changes
\* nothing.
C17_Actualizar ==
    [][(out'.op = "actualizar"
            /\ (out' # out \/ especialidades' # especialidades)) =>
        LET id == out'.id
            entity == out'.entity IN
        IF EspecialidadRepository_buscar_por_id(especialidades, id).stored
        THEN /\ out'.kind = "entity"
             /\ out'.value.stored
             /\ out'.value.nombre = entity.nombre
             /\ out'.value.letra = entity.letra
             /\ out'.value.observacion = entity.observacion
             /\ out'.value.tipoespecialidad_id = entity.tipoespecialidad_id
             /\ out'.value.facultad_id = entity.facultad_id
             /\ out'.value_id = id
             /\ EspecialidadRepository_buscar_por_id(especialidades', id) = out'.value
             /\ \A j \in EspecialidadIds \ {id} :
                   especialidades'[j] = especialidades[j]
             /\ alumnos' = alumnos
        ELSE /\ out'.kind = "None"
             /\ especialidades' = especialidades
             /\ alumnos' = alumnos]_vars

\* a row updated in every column from an entity that carries another id
C17_Witness ==
    /\ out.op = "actualizar"
    /\ out.kind = "entity"
    /\ out.entity_id \notin {NoId, out.id}
    /\ out.value.nombre = "matematica actualizada"
    /\ out.value.letra = "B"
    /\ out.value.facultad_id = NoId
    /\ especialidades[out.id] = out.value
    /\ especialidades[out.entity_id].nombre = "Matematicas"

(***************************************************************************)
(* C16                                                                     *)
(***************************************************************************)
\* C16: buscar_alumnos_por_especialidad(id) returns None when no especialidad
\* has the id, which the endpoint answers with 404; otherwise it returns the
\* data of the especialidad and of its facultad, and under 'alumnos' exactly
\* the stored alumnos whose especialidad_id is id, each once.
C16_AlumnosOfEspecialidad ==
    (out.op = "buscar_alumnos_por_especialidad" /\ out.id # NoId) =>
        IF ~EspecialidadRepository_buscar_por_id(especialidades, out.id).stored
        THEN out.kind = "None" /\ out.status = 404
        ELSE /\ out.kind = "dict"
             /\ out.value_id = out.id
             /\ out.value = especialidades[out.id]
             /\ out.facultad = especialidades[out.id].facultad_id
             /\ \A a \in Ids :
                   (alumnos[a].stored /\ alumnos[a].especialidad_id = out.id)
                       <=> (\E i \in DOMAIN out.alumnos : out.alumnos[i] = a)
             /\ \A i, j \in DOMAIN out.alumnos :
                   out.alumnos[i] = out.alumnos[j] => i = j

(***************************************************************************)
(* C18                                                                     *)
(***************************************************************************)
\* C18: every key of the registry is in lower case; a call removes no key; and
\* create of an identifier that was registered (in any case) when the call
\* began returns an instance, never the unsupported-format error.
C18_RegistryGrowsNormalized ==
    /\ \A i \in DOMAIN _generators :
          \A j \in DOMAIN _generators[i][1] :
              _generators[i][1][j] \notin Range(UpperCase)
    /\ \A i \in DOMAIN pre : HasKey(_generators, pre[i][1])
    /\ (ret.op = "create" /\ ~NotRegistered(ret.format_type, pre)) =>
          /\ ret.kind = "instance"
          /\ ~NotRegistered(ret.format_type, _generators)

\* an identifier registered in upper case by a client is a lower-case key,
\* still there after the later call, a create for its capitalized form
C18_Witness ==
    /\ ret.op = "create"
    /\ ret.format_type = capitalize(ExtraWords[1])
    /\ ret.kind = "instance"
    /\ Len(pre) = Len(ModuleRegistrations) + 1
    /\ HasKey(_generators, ExtraWords[1])

(***************************************************************************)
(* C19                                                                     *)
(***************************************************************************)
\* C19: create, get_available_formats, obtener_tipo_documento and the steps of
\* every generar leave the registry as it was, whatever they end in; changing
\* the list get_available_formats returned leaves it as it was too; and the
\* instance create or obtener_tipo_documento returns is not the one the caller
\* got from its call before.
C19_ReadsLeaveRegistry ==
    [][/\ pc = Ready => _generators' = _generators
       /\ (ret' # ret /\ ret'.kind = "instance") =>
             /\ ret'.oid \in ObjectIds
             /\ ret'.oid # ret.oid]_vars

\* the caller emptied the list it got while the registry holds its three keys,
\* and a generar call that failed is behind it
C19_Witness ==
    /\ ret.op = "get_available_formats"
    /\ ret.formats = <<>>
    /\ Len(_generators) = Len(ModuleRegistrations)
    /\ \E p \in TempNames : files[p] # Absent

====
